---- MODULE Spec2Model ----
(***************************************************************************)
(* everylotbot-cincinnati: the lot selector, the address sanitizer, the    *)
(* zoning decoder, the post composer and the posting state tracker         *)
(* (src/everylot/everylot.py), the pipeline that drives them               *)
(* (src/everylot/bot.py), the Bluesky poster (src/everylot/bluesky.py) and  *)
(* the post length validator (src/validate_post_length.py).                *)
(*                                                                         *)
(* Text is modelled as a sequence of one-character strings where the code  *)
(* takes it apart (split, strip, capitalize) and as a TLA+ string where    *)
(* the code only compares or concatenates it.  Str converts the first to   *)
(* the second.  Python None and SQL NULL are the value None; every other   *)
(* value v of a nullable place is Val(v).                                  *)
(***************************************************************************)
EXTENDS Integers, Sequences, FiniteSets, TLC

VARIABLES
    db,          \* table cincinnati_lots: ogc_fid -> row
    today,       \* date('now')
    runs,        \* number of runs of bot.main started so far
    pc,          \* per process: position in bot.main
    args,        \* per process: parsed command line and environment
    el,          \* per process: EveryLot.lot, the selected row or None
    image,       \* per process: the fetched street view image or None
    post_data,   \* per process: result of EveryLot.compose
    post_id,     \* per process: value returned by BlueskyPoster.post
    marked,      \* per process: the arguments mark_as_posted was called with, or None
    log,         \* per process: messages logged by this run
    feed,        \* external: the posts created, in order: the ogc_fid each announces
    zin, zout,   \* zoning decoder harness: input code, output
    ain, aout    \* address sanitizer harness: input address, output

vars == <<db, today, runs, pc, args, el, image, post_data,
          post_id, marked, log, feed, zin, zout, ain, aout>>

pipeVars == <<db, today, runs, pc, args, el, image, post_data,
              post_id, marked, log, feed>>

fnVars == <<zin, zout, ain, aout>>

-----------------------------------------------------------------------------
(* Bounds of the model *)

MaxId == 1            \* ogc_fid ranges over 0..MaxId
MaxRuns == 2          \* runs of bot.main per behaviour
MaxDay == 1           \* date('now') ranges over 0..MaxDay
MaxZoningAtoms == 5   \* zoning inputs are built from at most this many atoms
MaxAddrTokens == 4    \* address inputs have at most this many tokens

-----------------------------------------------------------------------------
(* Values *)

None == [isnull |-> TRUE]
Val(v) == [isnull |-> FALSE, v |-> v]

Ok(v) == [raised |-> FALSE, v |-> v]
Raise(e) == [raised |-> TRUE, exc |-> e]

RECURSIVE Str(_)
Str(s) == IF s = <<>> THEN "" ELSE Head(s) \o Str(Tail(s))

RECURSIVE Flatten(_)
Flatten(ss) == IF ss = <<>> THEN <<>> ELSE Head(ss) \o Flatten(Tail(ss))

\* sep.join(strs) over TLA+ strings
RECURSIVE JoinStr(_, _)
JoinStr(sep, strs) ==
    IF strs = <<>> THEN ""
    ELSE IF Len(strs) = 1 THEN strs[1]
    ELSE strs[1] \o sep \o JoinStr(sep, Tail(strs))

\* sep.join(parts) over character sequences, sep a single character
RECURSIVE JoinChars(_, _)
JoinChars(sep, parts) ==
    IF parts = <<>> THEN <<>>
    ELSE IF Len(parts) = 1 THEN parts[1]
    ELSE parts[1] \o <<sep>> \o JoinChars(sep, Tail(parts))

\* s.split(sep), sep a single character: empty parts are kept
RECURSIVE SplitOn(_, _)
SplitOn(s, sep) ==
    IF \A i \in 1..Len(s) : s[i] # sep THEN <<s>>
    ELSE LET i == CHOOSE j \in 1..Len(s) :
                      s[j] = sep /\ \A k \in 1..(j-1) : s[k] # sep
         IN <<SubSeq(s, 1, i-1)>> \o SplitOn(SubSeq(s, i+1, Len(s)), sep)

IsSpace(c) == c \in {" ", "\t"}

\* s.split(): runs of whitespace separate, no empty parts
RECURSIVE SplitWs(_)
SplitWs(s) ==
    IF s = <<>> THEN <<>>
    ELSE IF IsSpace(s[1]) THEN SplitWs(Tail(s))
    ELSE LET ends == {j \in 1..Len(s) : IsSpace(s[j])}
             n == IF ends = {} THEN Len(s) + 1
                  ELSE CHOOSE j \in ends : \A k \in ends : j <= k
         IN <<SubSeq(s, 1, n-1)>> \o SplitWs(SubSeq(s, n, Len(s)))

\* s.strip()
RECURSIVE Strip(_)
Strip(s) ==
    IF s = <<>> THEN s
    ELSE IF IsSpace(s[1]) THEN Strip(Tail(s))
    ELSE IF IsSpace(s[Len(s)]) THEN Strip(SubSeq(s, 1, Len(s)-1))
    ELSE s

LowerLetters == <<"a","b","c","d","e","f","g","h","i","j","k","l","m",
                  "n","o","p","q","r","s","t","u","v","w","x","y","z">>
UpperLetters == <<"A","B","C","D","E","F","G","H","I","J","K","L","M",
                  "N","O","P","Q","R","S","T","U","V","W","X","Y","Z">>

ToUpper(c) ==
    IF \E i \in 1..Len(LowerLetters) : LowerLetters[i] = c
    THEN UpperLetters[CHOOSE i \in 1..Len(LowerLetters) : LowerLetters[i] = c]
    ELSE c

ToLower(c) ==
    IF \E i \in 1..Len(UpperLetters) : UpperLetters[i] = c
    THEN LowerLetters[CHOOSE i \in 1..Len(UpperLetters) : UpperLetters[i] = c]
    ELSE c

\* str.capitalize(): first character upper-cased, the rest lower-cased
Capitalize(s) ==
    IF s = <<>> THEN s
    ELSE <<ToUpper(s[1])>> \o [i \in 1..(Len(s)-1) |-> ToLower(s[i+1])]

-----------------------------------------------------------------------------
(* EveryLot.sanitize_address *)

directions == "N" :> "North" @@ "S" :> "South" @@ "E" :> "East" @@ "W" :> "West"

street_types ==
    "AVE" :> "Avenue" @@ "ST" :> "Street" @@ "BLVD" :> "Boulevard"
    @@ "RD" :> "Road" @@ "DR" :> "Drive" @@ "CT" :> "Court" @@ "PL" :> "Place"
    @@ "TER" :> "Terrace" @@ "LN" :> "Lane" @@ "WAY" :> "Way"
    @@ "CIR" :> "Circle" @@ "PKY" :> "Parkway" @@ "SQ" :> "Square"

\* the mutant: the loop does not break after a street type
RECURSIVE SanitizeLoopNoBreak(_, _)
SanitizeLoopNoBreak(parts, i) ==
    IF i > Len(parts) THEN <<>>
    ELSE LET part == Strip(parts[i]) IN
         IF i = 1 THEN <<Str(part)>> \o SanitizeLoopNoBreak(parts, i+1)
         ELSE IF Str(part) \in DOMAIN directions
              THEN <<directions[Str(part)]>> \o SanitizeLoopNoBreak(parts, i+1)
         ELSE IF Str(part) \in DOMAIN street_types
              THEN <<street_types[Str(part)]>> \o SanitizeLoopNoBreak(parts, i+1)
         ELSE <<Str(Capitalize(part))>> \o SanitizeLoopNoBreak(parts, i+1)

\* the for loop of sanitize_address from index i on: the list `result`
RECURSIVE SanitizeLoop(_, _)
SanitizeLoop(parts, i) ==
    IF i > Len(parts) THEN <<>>
    ELSE LET part == Strip(parts[i]) IN
         IF i = 1 THEN <<Str(part)>> \o SanitizeLoop(parts, i+1)
         ELSE IF Str(part) \in DOMAIN directions
              THEN <<directions[Str(part)]>> \o SanitizeLoop(parts, i+1)
         ELSE IF Str(part) \in DOMAIN street_types
              THEN <<street_types[Str(part)]>>
         ELSE <<Str(Capitalize(part))>> \o SanitizeLoop(parts, i+1)

\* address is None or Val(characters); the result is None or Val(string)
sanitize_address(address) ==
    IF address = None \/ address.v = <<>> THEN
        IF address = None THEN None ELSE Val(Str(address.v))
    ELSE LET parts == SplitWs(SplitOn(Strip(address.v), ",")[1]) IN
         IF parts = <<>> THEN Val(Str(address.v))
         ELSE Val(JoinStr(" ", SanitizeLoop(parts, 1)))

-----------------------------------------------------------------------------
(* EveryLot.get_cincinnati_zoning_description *)

base_descriptions ==
    "SF-20" :> "Single-family (20,000 sq ft min lot)"
    @@ "SF-10" :> "Single-family (10,000 sq ft min lot)"
    @@ "SF-6" :> "Single-family (6,000 sq ft min lot)"
    @@ "SF-4" :> "Single-family (4,000 sq ft min lot)"
    @@ "SF-2" :> "Single-family (2,000 sq ft min lot)"
    @@ "RMX" :> "Residential Mixed"
    @@ "RM-2.0" :> "Residential Multi-family (2,000 sq ft land/unit)"
    @@ "RM-1.2" :> "Residential Multi-family (1,200 sq ft land/unit)"
    @@ "RM-0.7" :> "Residential Multi-family (700 sq ft land/unit)"
    @@ "OL" :> "Office Limited"
    @@ "OG" :> "Office General"
    @@ "CN" :> "Commercial Neighborhood"
    @@ "CC" :> "Commercial Community"
    @@ "CG" :> "Commercial General"
    @@ "UM" :> "Urban Mix"
    @@ "DD" :> "Downtown Development"
    @@ "MA" :> "Manufacturing Agricultural"
    @@ "ML" :> "Manufacturing Limited"
    @@ "MG" :> "Manufacturing General"
    @@ "ME" :> "Manufacturing Exclusive"
    @@ "RF-R" :> "Riverfront Residential/Recreational"
    @@ "RF-C" :> "Riverfront Commercial"
    @@ "RF-M" :> "Riverfront Manufacturing"
    @@ "PR" :> "Parks and Recreation"
    @@ "IR" :> "Institutional-Residential"
    @@ "PD" :> "Planned Development"
    @@ "T3E" :> "T3 Estate (Sub-Urban)"
    @@ "T3N" :> "T3 Neighborhood (Sub-Urban)"
    @@ "T4N.MF" :> "T4 Neighborhood Medium Footprint (General Urban)"
    @@ "T4N.SF" :> "T4 Neighborhood Small Footprint (General Urban)"
    @@ "T5MS" :> "T5 Main Street (Urban Center)"
    @@ "T5N.LS" :> "T5 Neighborhood Large Setback (Urban Center)"
    @@ "T5N.SS" :> "T5 Neighborhood Small Setback (Urban Center)"
    @@ "T5F" :> "T5 Flex (Urban Center)"

known_suffixes ==
    "T" :> "Transportation Corridor Overlay" @@ "MH" :> "Middle Housing Overlay"
    @@ "B" :> "Neighborhood Business District" @@ "P" :> "Pedestrian-Oriented"
    @@ "A" :> "Auto-Oriented" @@ "M" :> "Mixed-Use" @@ "O" :> "Open Sub-Zone"

\* parts[:i] and parts[i:]
Prefix(parts, i) == SubSeq(parts, 1, i)
Suffix(parts, i) == SubSeq(parts, i+1, Len(parts))

suffix_descs(remaining_suffixes) ==
    [j \in 1..Len(remaining_suffixes) |->
        LET suf == Str(remaining_suffixes[j]) IN
        IF suf \in DOMAIN known_suffixes THEN known_suffixes[suf] ELSE suf]

full_desc(parts, i) ==
    LET base_desc == base_descriptions[Str(JoinChars("-", Prefix(parts, i)))]
        descs == suffix_descs(Suffix(parts, i))
    IN IF descs # <<>> THEN base_desc \o " - " \o JoinStr(", ", descs)
       ELSE base_desc

\* the mutant: only the first part is tried as the base code
ZoningLoopFirstPartOnly(code, parts, i) ==
    IF Str(parts[1]) \in DOMAIN base_descriptions
    THEN full_desc(parts, 1)
    ELSE "Unknown Zoning Code: " \o Str(code)

\* for i in range(len(parts), 0, -1), from i down
RECURSIVE ZoningLoop(_, _, _)
ZoningLoop(code, parts, i) ==
    IF i < 1 THEN "Unknown Zoning Code: " \o Str(code)
    ELSE IF Str(JoinChars("-", Prefix(parts, i))) \in DOMAIN base_descriptions
         THEN full_desc(parts, i)
    ELSE ZoningLoop(code, parts, i-1)

\* code is a sequence of characters; the result is a string
get_cincinnati_zoning_description(code) ==
    LET parts == SplitOn(code, "-") IN
    IF Str(code) \in DOMAIN base_descriptions THEN base_descriptions[Str(code)]
    ELSE ZoningLoop(code, parts, Len(parts))

-----------------------------------------------------------------------------
(* Numbers as text *)

Digits == <<"0","1","2","3","4","5","6","7","8","9">>

\* str(n), n >= 0
RECURSIVE IntStr(_)
IntStr(n) == IF n < 10 THEN Digits[n+1] ELSE IntStr(n \div 10) \o Digits[(n % 10) + 1]

\* format(n, ','), n >= 0
RECURSIVE FormatThousands(_)
FormatThousands(n) ==
    IF n < 1000 THEN IntStr(n)
    ELSE LET r == n % 1000
             pad == IF r < 10 THEN "00" ELSE IF r < 100 THEN "0" ELSE ""
         IN FormatThousands(n \div 1000) \o "," \o pad \o IntStr(r)

\* the integer a text denotes, None when it is no numeral (column affinity
\* INTEGER converts a bound text parameter that looks like an integer)
ParseInt(s) ==
    IF \E n \in 0..99 : IntStr(n) = s
    THEN Val(CHOOSE n \in 0..99 : IntStr(n) = s)
    ELSE None

Chars_SF4T == <<"S","F","-","4","-","T">>
Chars_RFM == <<"R","F","-","M">>
Chars_Damen == <<"2","0","2","3"," ","N"," ","D","A","M","E","N"," ","A","V","E">>
Chars_Main == <<"1","2"," ","W"," ","M","A","I","N"," ","S","T",","," ","4","5","2","0","2">>

-----------------------------------------------------------------------------
(* The dataset *)

LotIds == 0..MaxId
Procs == {1, 2}

\* the columns a data-loading process fills in, as the kinds of row there are
Profiles == <<
    [address |-> Val(Chars_Damen), zoning |-> Val(Chars_SF4T),
     improvement_value |-> Val(5000)],
    [address |-> None, zoning |-> None, improvement_value |-> Val(1250000)],
    [address |-> Val(Chars_Main), zoning |-> Val(Chars_RFM),
     improvement_value |-> Val(0)],
    [address |-> Val(<<>>), zoning |-> Val(<<>>), improvement_value |-> None] >>

\* the columns the tracker writes, at their defaults
Unposted == [is_posted |-> 0, post_url |-> None, post_date |-> None]

NewRow(profile, with_zoning) ==
    IF with_zoning
    THEN [address |-> profile.address, zoning |-> profile.zoning,
          improvement_value |-> profile.improvement_value] @@ Unposted
    ELSE [address |-> profile.address,
          improvement_value |-> profile.improvement_value] @@ Unposted

\* SELECT ogc_fid AS id, *: dict(row)
RowDict(d, i) == [id |-> i] @@ d[i]

\* the mutant: the query does not filter on is_posted
NextLotQueryNoPostedFilter(d) ==
    LET eligible == {i \in DOMAIN d :
                        /\ d[i].improvement_value # None
                        /\ d[i].improvement_value.v > 0}
    IN IF eligible = {} THEN {None} ELSE {Val(RowDict(d, i)) : i \in eligible}

\* the mutant: the query does not filter on improvement_value
NextLotQueryNoValueFilter(d) ==
    LET eligible == {i \in DOMAIN d : d[i].is_posted = 0}
    IN IF eligible = {} THEN {None} ELSE {Val(RowDict(d, i)) : i \in eligible}

\* the rows cursor.fetchone() can return for NEXT_LOT_QUERY (ORDER BY RANDOM()
\* LIMIT 1), None when the result is empty
NEXT_LOT_QUERY(d) ==
    LET eligible == {i \in DOMAIN d :
                        /\ d[i].is_posted = 0
                        /\ d[i].improvement_value # None
                        /\ d[i].improvement_value.v > 0}
    IN IF eligible = {} THEN {None} ELSE {Val(RowDict(d, i)) : i \in eligible}

\* identifiers a caller passes as id_: None, a str (argparse, os.getenv) or
\* an int (validate_post_length)
NoId == [t |-> "none"]
StrId(s) == [t |-> "str", s |-> s]
IntId(n) == [t |-> "int", n |-> n]

\* bool(id_)
Truthy(id_) ==
    CASE id_.t = "none" -> FALSE
      [] id_.t = "str" -> id_.s # ""
      [] id_.t = "int" -> id_.n # 0

\* the key the bound parameter is compared as
KeyOf(id_) ==
    CASE id_.t = "none" -> None
      [] id_.t = "str" -> ParseInt(id_.s)
      [] id_.t = "int" -> Val(id_.n)

\* the rows cursor.fetchone() can return for SPECIFIC_LOT_QUERY
SPECIFIC_LOT_QUERY(d, id_) ==
    LET hit == {i \in DOMAIN d : KeyOf(id_) = Val(i)}
    IN IF hit = {} THEN {None} ELSE {Val(RowDict(d, i)) : i \in hit}

\* EveryLot.__init__: the values self.lot can take
EveryLot__init__(d, id_) ==
    IF Truthy(id_) THEN SPECIFIC_LOT_QUERY(d, id_) ELSE NEXT_LOT_QUERY(d)

\* the mutant: the UPDATE has no WHERE clause
MarkAllRows(d, lot, ref, now) ==
    [i \in DOMAIN d |->
        [d[i] EXCEPT !.is_posted = 1, !.post_url = ref, !.post_date = Val(now)]]

\* the mutant: the UPDATE re-checks is_posted and leaves a posted row alone
MarkUnlessPosted(d, lot, ref, now) ==
    [i \in DOMAIN d |->
        IF i = lot.id /\ d[i].is_posted = 0
        THEN [d[i] EXCEPT !.is_posted = 1, !.post_url = ref,
                          !.post_date = Val(now)]
        ELSE d[i]]

\* EveryLot.mark_as_posted: the table after the UPDATE and commit; ref is
\* the bound post_id, None binding NULL
mark_as_posted(d, lot, ref, now) ==
    [i \in DOMAIN d |->
        IF i = lot.id
        THEN [d[i] EXCEPT !.is_posted = 1, !.post_url = ref,
                          !.post_date = Val(now)]
        ELSE d[i]]

-----------------------------------------------------------------------------
(* EveryLot.compose *)

Lit(text) == [kind |-> "lit", text |-> text]
Field(name, fmt) == [kind |-> "field", name |-> name, fmt |-> fmt]

\* '{address}', the print_format default of EveryLot.__init__
T_Address == <<Field("address", "")>>

\* "{address} zoned {zoning}"
T_Example == <<Field("address", ""), Lit(" zoned "), Field("zoning", "")>>

\* the --print-format default of bot.py, cut to the columns of the model
T_Default ==
    <<Field("address", ""), Lit("\n\nZoning: "), Field("zoning", ""),
      Lit("\n\nImprovement Value: $"), Field("improvement_value", ",")>>

\* post_data after the zoning rewrite: Ok(dict), or the exception raised
PostData(lot) ==
    LET sanitized_address == sanitize_address(lot.address) IN
    IF "zoning" \in DOMAIN lot
    THEN IF lot.zoning = None
         THEN Raise("AttributeError")
         ELSE Ok([k \in DOMAIN lot |->
                    IF k = "address" THEN sanitized_address
                    ELSE IF k = "zoning"
                         THEN Val(get_cincinnati_zoning_description(lot.zoning.v)
                                  \o " (" \o Str(lot.zoning.v) \o ")")
                    ELSE lot[k]])
    ELSE Ok([k \in DOMAIN lot |->
                IF k = "address" THEN sanitized_address ELSE lot[k]])

\* the text one piece of the format string renders to
PieceText(ctx, piece) ==
    IF piece.kind = "lit" THEN piece.text
    ELSE LET v == ctx[piece.name] IN
         IF v = None THEN "None"
         ELSE IF piece.name = "improvement_value"
              THEN IF piece.fmt = "," THEN FormatThousands(v.v) ELSE IntStr(v.v)
         ELSE v.v

\* print_format.format(**post_data)
Format(print_format, ctx) ==
    LET fields == {i \in 1..Len(print_format) : print_format[i].kind = "field"} IN
    IF \E i \in fields : print_format[i].name \notin DOMAIN ctx
    THEN Raise("KeyError")
    ELSE IF \E i \in fields : print_format[i].fmt # "" /\ ctx[print_format[i].name] = None
    THEN Raise("TypeError")
    ELSE Ok(JoinStr("", [i \in 1..Len(print_format) |-> PieceText(ctx, print_format[i])]))

\* EveryLot.compose: Ok(result) or the exception raised
compose(lot, print_format) ==
    LET pd == PostData(lot) IN
    IF pd.raised THEN pd
    ELSE LET status == Format(print_format, pd.v) IN
         IF status.raised THEN status ELSE Ok([status |-> status.v])

-----------------------------------------------------------------------------
(* bot.main *)

IdArgs == {NoId, StrId("")} \cup {StrId(IntStr(n)) : n \in 0..(MaxId + 1)}

MainArgs == [id : IdArgs, dry_run : BOOLEAN, no_image : BOOLEAN,
             print_format : {T_Address, T_Example}]

NoArgs == [id |-> NoId, dry_run |-> FALSE, no_image |-> FALSE,
           print_format |-> T_Default]

Running(p) == pc[p] \notin {"idle", "done", "validated"}

\* lines 12-50: parse the arguments, build the EveryLot, stop if no lot
StartRunBody(p, a) ==
    /\ ~Running(p)
    /\ runs' = runs + 1
    /\ args' = [args EXCEPT ![p] = a]
    /\ \E lot \in EveryLot__init__(db, a.id) :
          /\ el' = [el EXCEPT ![p] = lot]
          /\ IF lot = None
             THEN /\ log' = [log EXCEPT ![p] = {"No lot found"}]
                  /\ pc' = [pc EXCEPT ![p] = "done"]
             ELSE /\ log' = [log EXCEPT ![p] = {}]
                  /\ pc' = [pc EXCEPT ![p] = "image"]
    /\ image' = [image EXCEPT ![p] = None]
    /\ post_data' = [post_data EXCEPT ![p] = None]
    /\ post_id' = [post_id EXCEPT ![p] = None]
    /\ marked' = [marked EXCEPT ![p] = None]
    /\ UNCHANGED <<db, today, feed, fnVars>>

\* a run of main, while the behaviour has runs left
StartRun(p, a) ==
    /\ runs < MaxRuns
    /\ StartRunBody(p, a)

\* lines 54-58: get_streetview_image unless --no-image; it raises without a
\* key or an address, or when the request fails, and main does not catch it
FetchImage(p) ==
    /\ pc[p] = "image"
    /\ \/ /\ args[p].no_image
          /\ pc' = [pc EXCEPT ![p] = "compose"]
          /\ UNCHANGED <<image, log>>
       \/ /\ ~args[p].no_image
          /\ el[p].v.address # None /\ el[p].v.address.v # <<>>
          /\ image' = [image EXCEPT ![p] = Val("jpg")]
          /\ pc' = [pc EXCEPT ![p] = "compose"]
          /\ UNCHANGED log
       \/ /\ ~args[p].no_image
          /\ \E exc \in {"ValueError", "RequestException"} :
                /\ exc = "RequestException" =>
                      (el[p].v.address # None /\ el[p].v.address.v # <<>>)
                /\ log' = [log EXCEPT ![p] = @ \cup
                      (IF exc = "RequestException"
                       THEN {"Failed to fetch Street View image"} ELSE {})
                      \cup {"Traceback: " \o exc}]
          /\ pc' = [pc EXCEPT ![p] = "done"]
          /\ UNCHANGED image
    /\ UNCHANGED <<db, today, runs, args, el, post_data, post_id, marked, feed, fnVars>>

\* the mutant: --dry-run is not honoured
ComposeIgnoringDryRun(p) ==
    /\ pc[p] = "compose"
    /\ \E enable_bluesky \in BOOLEAN :
          IF ~enable_bluesky
          THEN /\ log' = [log EXCEPT ![p] = @ \cup {"Bluesky is not enabled"}]
               /\ pc' = [pc EXCEPT ![p] = "done"]
               /\ UNCHANGED post_data
          ELSE LET r == compose(el[p].v, args[p].print_format) IN
               /\ post_data' = [post_data EXCEPT ![p] = Val(r)]
               /\ IF r.raised
                  THEN /\ log' = [log EXCEPT ![p] = @ \cup {"Traceback: " \o r.exc}]
                       /\ pc' = [pc EXCEPT ![p] = "done"]
                  ELSE /\ log' = [log EXCEPT ![p] = @ \cup {"Post text"}]
                       /\ pc' = [pc EXCEPT ![p] = "post"]
    /\ UNCHANGED <<db, today, runs, args, el, image, post_id, marked, feed, fnVars>>

\* lines 60-81: ENABLE_BLUESKY, compose, and the end of a dry run
Compose(p) ==
    /\ pc[p] = "compose"
    /\ \E enable_bluesky \in BOOLEAN :
          IF ~enable_bluesky
          THEN /\ log' = [log EXCEPT ![p] = @ \cup {"Bluesky is not enabled"}]
               /\ pc' = [pc EXCEPT ![p] = "done"]
               /\ UNCHANGED post_data
          ELSE LET r == compose(el[p].v, args[p].print_format) IN
               /\ post_data' = [post_data EXCEPT ![p] = Val(r)]
               /\ IF r.raised
                  THEN /\ log' = [log EXCEPT ![p] = @ \cup {"Traceback: " \o r.exc}]
                       /\ pc' = [pc EXCEPT ![p] = "done"]
                  ELSE /\ log' = [log EXCEPT ![p] = @ \cup {"Post text"}]
                       /\ pc' = [pc EXCEPT ![p] =
                                    IF args[p].dry_run THEN "done" ELSE "post"]
    /\ UNCHANGED <<db, today, runs, args, el, image, post_id, marked, feed, fnVars>>

\* the mutant: a post that raised goes on to the tracker write
PostIgnoringFailure(p) ==
    /\ pc[p] = "post"
    /\ \/ /\ image[p] # None
          /\ pc' = [pc EXCEPT ![p] = "mark"]
          /\ UNCHANGED <<feed, post_id, log>>
       \/ /\ image[p] # None
          /\ feed' = Append(feed, el[p].v.id)
          /\ post_id' = [post_id EXCEPT ![p] = Val(Len(feed) + 1)]
          /\ pc' = [pc EXCEPT ![p] = "mark"]
          /\ UNCHANGED log
       \/ /\ image[p] = None
          /\ log' = [log EXCEPT ![p] = @ \cup
                        {"Skipping Bluesky post because no image was fetched"}]
          /\ pc' = [pc EXCEPT ![p] = "done"]
          /\ UNCHANGED <<feed, post_id>>
    /\ UNCHANGED <<db, today, runs, args, el, image, post_data, marked, fnVars>>

\* lines 83-89, 92-95: BlueskyPoster(), then BlueskyPoster.post if there is
\* an image; an exception of either is caught and logged
Post(p) ==
    /\ pc[p] = "post"
    /\ \/ \* the constructor (credentials, login) or post raises
          /\ log' = [log EXCEPT ![p] = @ \cup {"Failed to post to Bluesky"}]
          /\ pc' = [pc EXCEPT ![p] = "done"]
          /\ UNCHANGED <<feed, post_id>>
       \/ \* create_record returns: the post exists, its URL is returned
          /\ image[p] # None
          /\ feed' = Append(feed, el[p].v.id)
          /\ post_id' = [post_id EXCEPT ![p] = Val(Len(feed) + 1)]
          /\ pc' = [pc EXCEPT ![p] = "mark"]
          /\ UNCHANGED log
       \/ /\ image[p] = None
          /\ log' = [log EXCEPT ![p] = @ \cup
                        {"Skipping Bluesky post because no image was fetched"}]
          /\ pc' = [pc EXCEPT ![p] = "done"]
          /\ UNCHANGED <<feed, post_id>>
    /\ UNCHANGED <<db, today, runs, args, el, image, post_data, marked, fnVars>>

\* the mutant: a failure of the tracker write is swallowed and the run
\* reports the post as usual
MarkSwallowingFailure(p) ==
    /\ pc[p] = "mark"
    /\ marked' = [marked EXCEPT ![p] = Val([id |-> el[p].v.id, post_id |-> post_id[p]])]
    /\ \/ db' = mark_as_posted(db, el[p].v, post_id[p], today)
       \/ UNCHANGED db
    /\ log' = [log EXCEPT ![p] = @ \cup {"Posted to Bluesky"}]
    /\ pc' = [pc EXCEPT ![p] = "done"]
    /\ UNCHANGED <<today, runs, args, el, image, post_data, post_id, feed, fnVars>>

\* lines 90-91, 94-95: mark_as_posted; an exception of the UPDATE or the
\* commit is caught and logged like one of the post
Mark(p) ==
    /\ pc[p] = "mark"
    /\ marked' = [marked EXCEPT ![p] = Val([id |-> el[p].v.id, post_id |-> post_id[p]])]
    /\ \/ /\ db' = mark_as_posted(db, el[p].v, post_id[p], today)
          /\ log' = [log EXCEPT ![p] = @ \cup {"Posted to Bluesky"}]
       \/ /\ log' = [log EXCEPT ![p] = @ \cup {"Failed to post to Bluesky"}]
          /\ UNCHANGED db
    /\ pc' = [pc EXCEPT ![p] = "done"]
    /\ UNCHANGED <<today, runs, args, el, image, post_data, post_id, feed, fnVars>>

\* validate_post_length.main, one iteration of the loop over the table's
\* ogc_fid values: EveryLot(id_=lot_id), then compose unless there is no lot
Validate(p, lot_id) ==
    /\ ~Running(p)
    /\ lot_id \in DOMAIN db
    /\ args' = [args EXCEPT ![p] = [NoArgs EXCEPT !.id = IntId(lot_id)]]
    /\ \E lot \in EveryLot__init__(db, IntId(lot_id)) :
          /\ el' = [el EXCEPT ![p] = lot]
          /\ post_data' = [post_data EXCEPT ![p] =
                IF lot = None THEN None ELSE Val(compose(lot.v, T_Default))]
    /\ pc' = [pc EXCEPT ![p] = "validated"]
    /\ image' = [image EXCEPT ![p] = None]
    /\ post_id' = [post_id EXCEPT ![p] = None]
    /\ marked' = [marked EXCEPT ![p] = None]
    /\ log' = [log EXCEPT ![p] = {}]
    /\ UNCHANGED <<db, today, runs, feed, fnVars>>

\* the date changes
Tick ==
    /\ today < MaxDay
    /\ today' = today + 1
    /\ UNCHANGED <<db, runs, pc, args, el, image, post_data, post_id, marked,
                   log, feed, fnVars>>

-----------------------------------------------------------------------------
(* The pipeline, run after run by one process *)

Datasets ==
    {[i \in LotIds |-> NewRow(Profiles[((i + shift) % Len(Profiles)) + 1], TRUE)] :
        shift \in 0..(Len(Profiles) - 1)}
    \cup {[i \in LotIds |-> NewRow(Profiles[1], FALSE)]}

FnIdle ==
    /\ zin = <<>> /\ zout = None
    /\ ain = None /\ aout = None

PipeStart ==
    /\ today = 0
    /\ runs = 0
    /\ pc = [p \in Procs |-> "idle"]
    /\ args = [p \in Procs |-> NoArgs]
    /\ el = [p \in Procs |-> None]
    /\ image = [p \in Procs |-> None]
    /\ post_data = [p \in Procs |-> None]
    /\ post_id = [p \in Procs |-> None]
    /\ marked = [p \in Procs |-> None]
    /\ log = [p \in Procs |-> {}]
    /\ feed = <<>>

Init == db \in Datasets /\ PipeStart /\ FnIdle

Step(p) ==
    \/ \E a \in MainArgs : StartRun(p, a)
    \/ FetchImage(p)
    \/ Compose(p)
    \/ Post(p)
    \/ Mark(p)
    \/ \E lot_id \in LotIds : Validate(p, lot_id)

Next ==
    \/ Step(1)
    \/ Tick

Spec == Init /\ [][Next]_vars

-----------------------------------------------------------------------------
(* The zoning decoder on its own *)

ZoningAtoms ==
    {<<"-">>, <<"R","F">>, <<"M">>, <<"S","F","-","4">>, <<"T">>, <<"C","C">>, <<"A">>}

ZoningInputs ==
    {Flatten(a) : a \in UNION {[1..n -> ZoningAtoms] : n \in 0..MaxZoningAtoms}}
    \cup {<<"Z","Z","-","Q">>, <<"C","C","-","A","-","M","H">>,
          <<"T","4","N",".","M","F","-","O">>}

PipeStill ==
    /\ db = [i \in LotIds |-> NewRow(Profiles[1], TRUE)]
    /\ PipeStart

ZoningInit ==
    /\ PipeStill
    /\ zin \in ZoningInputs /\ zout = None
    /\ ain = None /\ aout = None

DecodeZoning ==
    /\ zout = None
    /\ zout' = Val(get_cincinnati_zoning_description(zin))
    /\ UNCHANGED <<pipeVars, zin, ain, aout>>

ZoningNext == DecodeZoning

SpecZoning == ZoningInit /\ [][ZoningNext]_vars

-----------------------------------------------------------------------------
(* The address sanitizer on its own *)

AddrAtoms ==
    {<<"2","0","2","3">>, <<"N">>, <<"D","A","M","E","N">>, <<"A","V","E">>,
     <<"S","T">>, <<"a","P","t">>}

\* an address: its tokens, the token a comma follows (0: a leading comma,
\* -1: no comma), and whether the whitespace is doubled and also leads and trails
AddrInputs ==
    UNION {[toks : [1..n -> AddrAtoms], comma : -1..n, wide : BOOLEAN] :
              n \in 0..MaxAddrTokens}

AddrText(a) ==
    LET n == Len(a.toks)
        sep == IF a.wide THEN <<" ", " ">> ELSE <<" ">>
        pad == IF a.wide THEN <<" ">> ELSE <<>>
    IN pad \o (IF a.comma = 0 THEN <<",">> ELSE <<>>)
       \o Flatten([i \in 1..n |->
              a.toks[i] \o (IF i = a.comma THEN <<",">> ELSE <<>>)
                        \o (IF i < n THEN sep ELSE <<>>)])
       \o pad

AddressInit ==
    /\ PipeStill
    /\ zin = <<>> /\ zout = None
    /\ ain \in {Val(a) : a \in AddrInputs} /\ aout = None

SanitizeAddress ==
    /\ aout = None
    /\ aout' = Val(sanitize_address(Val(AddrText(ain.v))))
    /\ UNCHANGED <<pipeVars, zin, zout, ain>>

AddressNext == SanitizeAddress

SpecAddress == AddressInit /\ [][AddressNext]_vars

-----------------------------------------------------------------------------
(* Properties of the pipeline *)

\* the number of posts created for lot i
Published(i) == Cardinality({r \in 1..Len(feed) : feed[r] = i})

\* the lots NEXT_LOT_QUERY is meant to draw from
Eligible(d) ==
    {i \in DOMAIN d : /\ d[i].is_posted = 0
                      /\ d[i].improvement_value # None
                      /\ d[i].improvement_value.v > 0}

\* the caller passed an identifier: an int, or a non-empty str
Supplied(id_) == id_.t = "int" \/ (id_.t = "str" /\ id_.s # "")

\* process p has just built its EveryLot: the table is as the query saw it
JustSelected(p) ==
    \/ pc[p] \in {"image", "validated"}
    \/ pc[p] = "done" /\ log[p] = {"No lot found"}

\* C1, as claimed: across any sequence of non-overlapping runs, with or
\* without an explicit id and whatever posts and tracker writes fail, no lot
\* is published more than once.
C1_NeverTwice == \A i \in LotIds : Published(i) <= 1

\* C1, amended: in non-overlapping runs, a run that is given no explicit id
\* (the id is absent or empty) never publishes a lot whose is_posted is
\* already true; only a run given an explicit id publishes such a lot.
C1_NoRandomRepost ==
    [][\A p \in Procs :
          (pc[p] = "post" /\ Len(feed') = Len(feed) + 1)
              => (Truthy(args[p].id) \/ db[feed'[Len(feed')]].is_posted = 0)]_vars

\* a lot posted and marked by the first run, and a second run without an
\* explicit id that went on to post another lot
C1_Witness ==
    /\ runs = 2 /\ pc[1] = "mark" /\ ~Truthy(args[1].id)
    /\ Len(feed) = 2 /\ feed[1] # feed[2]
    /\ db[feed[1]].is_posted = 1 /\ db[feed[1]].post_url = Val(1)

\* C2: without an explicit id, the selector returns a record only if that
\* record has is_posted = 0 and improvement_value > 0 in the table, and it
\* returns nothing exactly when the table has no such record.
C2_RandomSelectsEligible ==
    \A p \in Procs :
        (JustSelected(p) /\ ~Supplied(args[p].id)) =>
            IF el[p] = None THEN Eligible(db) = {}
            ELSE /\ el[p].v.id \in Eligible(db)
                 /\ el[p].v = RowDict(db, el[p].v.id)

\* a random selection from a table where another lot has a positive
\* improvement_value but is already posted
C2_Witness ==
    /\ pc[1] = "image" /\ args[1].id = NoId /\ el[1] # None
    /\ \E j \in LotIds : /\ j # el[1].v.id
                         /\ db[j].is_posted = 1
                         /\ db[j].improvement_value # None
                         /\ db[j].improvement_value.v > 0

\* C3, as claimed: once mark_as_posted has succeeded for a lot with
\* reference ref, a later selection without an explicit id never returns
\* that lot, and a lookup by that lot's id returns the record with
\* post_url = ref.
C3_PostedExcludedButFetchable ==
    \A p \in Procs : \A i \in LotIds :
        (JustSelected(p) /\ db[i].is_posted = 1) =>
            /\ ~Supplied(args[p].id) => (el[p] = None \/ el[p].v.id # i)
            /\ (Supplied(args[p].id) /\ KeyOf(args[p].id) = Val(i)) =>
                  /\ el[p] # None
                  /\ el[p].v.id = i
                  /\ el[p].v.post_url = db[i].post_url

\* C4: mark_as_posted is called in a run if and only if BlueskyPoster.post
\* has returned in that run, after it, and for the selected lot and the
\* returned reference; there is no call when no lot was found, posting is
\* disabled, the run is a dry run, no image was fetched or the post raised.
C4_MarkIffPosted ==
    \A p \in Procs :
        /\ pc[p] = "mark" => post_id[p] # None
        /\ marked[p] # None =>
              /\ post_id[p] # None
              /\ marked[p].v = [id |-> el[p].v.id, post_id |-> post_id[p]]
        /\ pc[p] = "done" => (marked[p] # None <=> post_id[p] # None)
        /\ post_id[p] # None =>
              /\ el[p] # None /\ image[p] # None /\ ~args[p].dry_run
              /\ "Bluesky is not enabled" \notin log[p]
              /\ feed[post_id[p].v] = el[p].v.id

\* a run whose post returned and whose tracker write was then attempted
\* and failed
C4_Witness ==
    /\ pc[1] = "done" /\ post_id[1] # None /\ marked[1] # None
    /\ "Failed to post to Bluesky" \in log[1]

\* C5, as claimed: whenever an identifier is supplied, the selector returns
\* the record whose primary key equals it, whatever its is_posted, or
\* nothing if there is no such record.
C5_LookupByKey ==
    \A p \in Procs :
        (JustSelected(p) /\ Supplied(args[p].id)) =>
            LET hit == {i \in LotIds : KeyOf(args[p].id) = Val(i)} IN
            IF hit = {} THEN el[p] = None
            ELSE el[p] # None /\ el[p].v.id \in hit
                 /\ el[p].v = RowDict(db, el[p].v.id)

\* C6: while a run started with --dry-run is under way, no step publishes
\* anything and no step changes the table.
C6_DryRunChangesNothing ==
    [][\A p \in Procs :
          ((Running(p) \/ Running(p)') /\ args'[p].dry_run)
              => (db' = db /\ feed' = feed)]_vars

\* a dry run that fetched an image and composed its text, on a table and a
\* feed a previous run has written to
C6_Witness ==
    /\ pc[1] = "done" /\ args[1].dry_run /\ image[1] # None
    /\ post_data[1] # None /\ ~post_data[1].v.raised
    /\ Len(feed) = 1 /\ db[feed[1]].is_posted = 1

\* whether the format string has a placeholder for the field
Refers(print_format, name) ==
    \E i \in 1..Len(print_format) :
        print_format[i].kind = "field" /\ print_format[i].name = name

\* C8, as claimed: compose rewrites the zoning field as "<decoded
\* description> (<original code>)" when the record has a zoning value, and
\* when it has none (the field is absent, or null in the row) composition
\* leaves the field out and completes without raising.
C8_ComposeZoning ==
    \A p \in Procs :
        (post_data[p] # None /\ el[p] # None) =>
            LET lot == el[p].v
                r == post_data[p].v
                print_format == args[p].print_format
            IN IF "zoning" \in DOMAIN lot /\ lot.zoning # None
               THEN print_format = T_Example =>
                       /\ ~r.raised
                       /\ r.v.status =
                             (IF lot.address = None THEN "None"
                              ELSE sanitize_address(lot.address).v)
                             \o " zoned "
                             \o get_cincinnati_zoning_description(lot.zoning.v)
                             \o " (" \o Str(lot.zoning.v) \o ")"
               ELSE ~Refers(print_format, "zoning") => ~r.raised

\* C10: mark_as_posted changes only the selected lot's record, setting
\* is_posted = 1, post_url = the reference and post_date = the current date
\* and no other field; the set of records never changes; is_posted never
\* goes from 1 to 0; and no step but the tracker write, the selector
\* included, changes any record.
C10_OnlyTheMarkedRecord ==
    [][/\ DOMAIN db' = DOMAIN db
       /\ \A i \in DOMAIN db :
             /\ DOMAIN db'[i] = DOMAIN db[i]
             /\ db[i].is_posted = 1 => db'[i].is_posted = 1
       /\ (\A p \in Procs : pc[p] # "mark") => db' = db
       /\ \A p \in Procs :
             (pc[p] = "mark" /\ db' # db) =>
                 /\ \A i \in DOMAIN db : i # el[p].v.id => db'[i] = db[i]
                 /\ LET old == db[el[p].v.id]
                        new == db'[el[p].v.id]
                    IN /\ new.is_posted = 1
                       /\ new.post_url = post_id[p]
                       /\ new.post_date = Val(today)
                       /\ \A f \in DOMAIN old \ {"is_posted", "post_url", "post_date"} :
                             new[f] = old[f]]_vars

\* the second tracker write of a behaviour, on a later day, with the record
\* of the first one and its earlier date still in place
C10_Witness ==
    /\ pc[1] = "done" /\ "Posted to Bluesky" \in log[1]
    /\ Len(feed) = 2 /\ feed[1] # feed[2]
    /\ db[feed[1]].post_url = Val(1) /\ db[feed[1]].post_date = Val(0)
    /\ db[feed[2]].post_url = Val(2) /\ db[feed[2]].post_date = Val(1)

-----------------------------------------------------------------------------
(* Properties of the zoning decoder *)

BaseKeys == DOMAIN base_descriptions

\* the largest element of a non-empty set of numbers
Largest(S) == CHOOSE k \in S : \A j \in S : j <= k

\* C7: a code that is a base-code key gets that key's description; any other
\* code is split on '-' into parts without '-' that rejoin to the code, the
\* base is the longest prefix of parts that joins to a key, the parts after
\* it are the suffix tokens, and with no such prefix the result is
\* "Unknown Zoning Code: " and the code.
C7_LongestPrefix ==
    zout # None =>
        LET parts == SplitOn(zin, "-")
            K == {k \in 1..Len(parts) :
                     Str(JoinChars("-", SubSeq(parts, 1, k))) \in BaseKeys}
        IN /\ JoinChars("-", parts) = zin
           /\ \A i \in 1..Len(parts) : \A j \in 1..Len(parts[i]) : parts[i][j] # "-"
           /\ Str(zin) \in BaseKeys => zout.v = base_descriptions[Str(zin)]
           /\ (Str(zin) \notin BaseKeys /\ K = {}) =>
                 zout.v = "Unknown Zoning Code: " \o Str(zin)
           /\ (Str(zin) \notin BaseKeys /\ K # {}) =>
                 LET k == Largest(K)
                     tokens == SubSeq(parts, k + 1, Len(parts))
                     words == [j \in 1..Len(tokens) |->
                                  IF Str(tokens[j]) \in DOMAIN known_suffixes
                                  THEN known_suffixes[Str(tokens[j])]
                                  ELSE Str(tokens[j])]
                 IN /\ k < Len(parts)
                    /\ zout.v = base_descriptions[Str(JoinChars("-", SubSeq(parts, 1, k)))]
                                \o " - " \o JoinStr(", ", words)
           /\ zin = Chars_RFM => zout.v = "Riverfront Manufacturing"

\* SF-4-T decoded: the base is the two-part prefix SF-4, T is the suffix
C7_Witness ==
    /\ zin = Chars_SF4T
    /\ zout = Val("Single-family (4,000 sq ft min lot) - Transportation Corridor Overlay")

-----------------------------------------------------------------------------
(* Properties of the address sanitizer *)

\* what the tokens the inputs are built from are to become after token 0
ExpectedWord(tok) ==
    CASE tok = <<"2","0","2","3">> -> "2023"
      [] tok = <<"N">> -> "North"
      [] tok = <<"D","A","M","E","N">> -> "Damen"
      [] tok = <<"A","V","E">> -> "Avenue"
      [] tok = <<"S","T">> -> "Street"
      [] tok = <<"a","P","t">> -> "Apt"

\* the tokens of the part of the address before its first comma
TokensBeforeComma(a) ==
    IF a.comma = -1 THEN a.toks ELSE SubSeq(a.toks, 1, a.comma)

\* C9: for an address with at least one token before the first comma, the
\* output is token 0 as it is, then for each later token its expansion or
\* its capitalized form, up to and including the first later token that is
\* a street-type abbreviation and nothing after it, joined by single spaces.
C9_StopsAtStreetType ==
    (aout # None /\ TokensBeforeComma(ain.v) # <<>>) =>
        LET toks == TokensBeforeComma(ain.v)
            n == Len(toks)
            stops == {i \in 2..n : Str(toks[i]) \in DOMAIN street_types}
            last == IF stops = {} THEN n
                    ELSE CHOOSE i \in stops : \A j \in stops : i <= j
            words == [i \in 1..last |->
                         IF i = 1 THEN Str(toks[1]) ELSE ExpectedWord(toks[i])]
        IN /\ aout.v = Val(JoinStr(" ", words))
           /\ AddrText(ain.v) = Chars_Damen => aout.v = Val("2023 North Damen Avenue")

\* an address with a token after its street type: the token is dropped
C9_Witness ==
    /\ ain = Val([toks |-> <<<<"2","0","2","3">>, <<"D","A","M","E","N">>,
                            <<"A","V","E">>, <<"a","P","t">>>>,
                  comma |-> -1, wide |-> FALSE])
    /\ aout = Val(Val("2023 Damen Avenue"))

-----------------------------------------------------------------------------
(* The tracker write that fails *)

\* C11: when a run's post has returned and its tracker write has not taken
\* effect, the lot's record is as the run selected it (is_posted, post_url
\* and post_date unchanged), the run has not logged "Posted to Bluesky",
\* and it has logged the failure as an error.
C11_FailedWriteIsReported ==
    \A p \in Procs :
        (/\ pc[p] = "done" /\ marked[p] # None
         /\ db[el[p].v.id].post_url # post_id[p]) =>
            /\ RowDict(db, el[p].v.id) = el[p].v
            /\ "Posted to Bluesky" \notin log[p]
            /\ "Failed to post to Bluesky" \in log[p]

\* a lot that is on the feed and still unposted in the table, after a run
\* whose tracker write failed
C11_Witness ==
    /\ pc[1] = "done" /\ marked[1] # None /\ post_id[1] = Val(1)
    /\ feed = <<el[1].v.id>>
    /\ db[el[1].v.id].is_posted = 0 /\ db[el[1].v.id].post_url = None
    /\ log[1] = {"Post text", "Failed to post to Bluesky"}

-----------------------------------------------------------------------------
(* Two instances of the pipeline on one dataset, neither given an id *)

\* both instances post for real, with the same format string
ConcArgs ==
    {a \in MainArgs : a.id = NoId /\ ~a.dry_run /\ a.print_format = T_Address}

ConcStep(p) ==
    \/ \E a \in ConcArgs : StartRun(p, a)
    \/ FetchImage(p)
    \/ Compose(p)
    \/ Post(p)
    \/ Mark(p)

ConcNext ==
    \/ \E p \in Procs : ConcStep(p)
    \/ Tick

SpecConc == Init /\ [][ConcNext]_vars

\* C12: with two instances running concurrently without ids, nothing in the
\* tracker holds back or re-checks a write: every tracker write that
\* succeeds leaves the lot's post_url at the writer's own reference,
\* whatever is_posted and post_url were, so the later writer's reference
\* replaces the earlier one; and both instances can have selected and
\* published the same lot before either has written (C12_Witness).
C12_LastWriterWins ==
    [][\A p \in Procs :
          (pc[p] = "mark" /\ "Posted to Bluesky" \in log'[p]) =>
              /\ db'[el[p].v.id].is_posted = 1
              /\ db'[el[p].v.id].post_url = post_id[p]
              /\ \A q \in Procs \ {p} :
                    (pc[q] = "done" /\ "Posted to Bluesky" \in log[q]
                     /\ el[q].v.id = el[p].v.id) =>
                        /\ db[el[p].v.id].post_url = post_id[q]
                        /\ db'[el[p].v.id].post_url # post_id[q]]_vars

\* both instances have selected the same unposted lot and published it, and
\* neither has written yet
C12_Witness ==
    /\ pc[1] = "mark" /\ pc[2] = "mark"
    /\ args[1].id = NoId /\ args[2].id = NoId
    /\ el[1].v.id = el[2].v.id
    /\ feed = <<el[1].v.id, el[1].v.id>>
    /\ db[el[1].v.id].is_posted = 0

-----------------------------------------------------------------------------
(* Runs without an id in which the image fetch, the post and the tracker
   write all succeed, one after the other, until no lot is found *)

\* enough runs to announce every lot of the table and to run once more
ProgressRuns == Cardinality(LotIds) + 1

ProgressArgs ==
    {a \in MainArgs : ~Supplied(a.id) /\ ~a.dry_run /\ ~a.no_image}

ProgressInit ==
    /\ db \in Datasets \cup {[i \in LotIds |-> NewRow(Profiles[1], TRUE)]}
    /\ PipeStart
    /\ FnIdle

ProgressNext ==
    \/ \E a \in ProgressArgs : runs < ProgressRuns /\ StartRunBody(1, a)
    \/ FetchImage(1) /\ image'[1] # None
    \/ Compose(1) /\ pc'[1] = "post"
    \/ Post(1) /\ pc'[1] = "mark"
    \/ Mark(1) /\ "Posted to Bluesky" \in log'[1]
    \/ Tick

SpecProgress == ProgressInit /\ [][ProgressNext]_vars

\* the lots eligible at the start: every row starts unposted, and
\* improvement_value is never written
InitiallyEligible ==
    {i \in LotIds : /\ db[i].improvement_value # None
                    /\ db[i].improvement_value.v > 0}

Announced == {feed[r] : r \in 1..Len(feed)}

PostedLots(d) == {i \in DOMAIN d : d[i].is_posted = 1}

\* what holds between and at the end of such runs
ProgressSoFar ==
    /\ \A i \in LotIds : Published(i) <= 1
    /\ Announced \subseteq InitiallyEligible
    /\ ~Running(1) =>
          /\ PostedLots(db) = Announced
          /\ Eligible(db) = InitiallyEligible \ Announced
    /\ pc[1] = "done" =>
          IF "Posted to Bluesky" \in log[1]
          THEN /\ Len(feed) = runs
               /\ feed[runs] = el[1].v.id
               /\ el[1].v.is_posted = 0
               /\ db[el[1].v.id].post_url = Val(runs)
          ELSE /\ log[1] = {"No lot found"}
               /\ Len(feed) = Cardinality(InitiallyEligible)
               /\ Announced = InitiallyEligible
               /\ runs > Cardinality(InitiallyEligible)
               /\ post_id[1] = None /\ marked[1] = None

\* C13: from a table with N eligible lots, each run without an id whose
\* image fetch, post and tracker write succeed announces and marks exactly
\* one lot that was eligible and not yet announced; the k-th such run brings
\* the feed to k posts, all for different lots; a run that finds no lot
\* comes only after N such runs, when every eligible lot has been announced
\* exactly once; and from then on no step publishes or writes anything.
C13_Progress ==
    [][/\ ProgressSoFar'
       /\ (pc[1] = "mark" /\ pc'[1] = "done") =>
             /\ el[1].v.id \in Eligible(db)
             /\ PostedLots(db') = PostedLots(db) \cup {el[1].v.id}
             /\ Len(feed) = Cardinality(PostedLots(db'))
       /\ Len(feed) = Cardinality(InitiallyEligible) /\ ~Running(1) =>
             /\ db' = db /\ feed' = feed
             /\ pc'[1] # pc[1] => log'[1] = {"No lot found"}]_vars

\* every lot of the table was eligible, one run announced each of them, and
\* the run after those found no lot
C13_Witness ==
    /\ InitiallyEligible = LotIds
    /\ runs = ProgressRuns /\ pc[1] = "done" /\ log[1] = {"No lot found"}
    /\ Len(feed) = Cardinality(LotIds) /\ Announced = LotIds
    /\ PostedLots(db) = LotIds

====
